---- MODULE Spec2Model ----
(***************************************************************************)
(* A model of bed's scheduling engine (src/src/lib.rs): Runner::run runs   *)
(* the jobs of a run, Job::run the tasks of a job, Task::run the steps of  *)
(* a task and Step::run one command; all of them report to the shared      *)
(* JobTracker.  Every tokio::spawn is a unit of work that interleaves with  *)
(* its scheduler and with every other unit (main.rs runs on the            *)
(* multi-threaded runtime); the only shared state is the tracker's map,    *)
(* which a Mutex makes atomic per call.                                    *)
(*                                                                         *)
(* Vec indices are 1-based here (Step index 0 of the code is index 1).     *)
(* Jobs and tasks are identified by their position in the declared Vec;    *)
(* the code's name-based lookups (ready, validation, tracker) stay         *)
(* name-based.                                                             *)
(***************************************************************************)
EXTENDS Naturals, Sequences, FiniteSets

VARIABLES
    input,      \* the Vec<Job> the Loader handed to the Runner (Runner.jobs at the call)
    tracker,    \* JobTracker.jobs: HashMap<String, JobStatus>
    runner,     \* the locals and position of Runner::run, and its result
    junit,      \* per job: the unit of work spawned at lib.rs:314 (Job::run and its closure)
    tunit       \* per job and task: the unit spawned at lib.rs:101 (Task::run and its closure)

vars == <<input, tracker, runner, junit, tunit>>

(***************************************************************************)
(* Bounds of the model.                                                    *)
(***************************************************************************)
\* the size of a run: its jobs, tasks, steps, depends entries and the lines its
\* processes write, all counted
MaxSize == 4

(***************************************************************************)
(* Values.                                                                 *)
(***************************************************************************)
JobNames == <<"A", "B", "C", "D", "E", "F", "G">>
TaskNames == <<"T1", "T2", "T3", "T4", "T5", "T6", "T7">>
\* a name no job and no task has
Missing == "X"

\* What the process of a Command step does: exits with code zero, exits with a
\* non-zero code, or cannot be started / awaited (the `?` at lib.rs:413 and 437).
Outcomes == {"ok", "exit", "io"}

\* The two pipes of the process (lib.rs:411-412): a line it writes goes to one.
Streams == {"out", "err"}

Min(S) == CHOOSE x \in S : \A y \in S : x <= y

\* Result<(), Error> of a run(); "none" while it has not returned.
NoResult == [kind |-> "none", ref |-> <<>>]
Ok == [kind |-> "Ok", ref |-> <<>>]
ErrCircularDependency == [kind |-> "CircularDependency", ref |-> <<>>]
ErrExit == [kind |-> "Exit", ref |-> <<>>]
ErrIo == [kind |-> "Io", ref |-> <<>>]
\* MissingDependency(String): the string as its "/"-separated parts
ErrMissingDependency(parts) == [kind |-> "MissingDependency", ref |-> parts]

IsErr(res) == res.kind \notin {"none", "Ok"}

(***************************************************************************)
(* The inputs: every collection of jobs with unique names, and unique task *)
(* names per job, whose jobs, tasks, steps, depends entries and lines      *)
(* written by the steps' processes number at most MaxSize, where a depends *)
(* list may name any node of the collection (itself included) and the      *)
(* missing name; and the scenarios below.                                  *)
(***************************************************************************)
Prefix(names, n) == SubSeq(names, 1, n)

\* The depends lists over the names `names` of at most `b` entries.
DependsLists(names, b) ==
    LET order == names \o <<Missing>>
        all == {order[i] : i \in DOMAIN order}
    IN  {SelectSeq(order, LAMBDA x : x \in S) : S \in {T \in SUBSET all : Cardinality(T) <= b}}

\* Step::Command { args }, as what the process of args does: its outcome and
\* the lines it writes, in the order it writes them, each as the stream it
\* goes to.  A process that cannot be started writes nothing.
NewStep(outcome, writes) == [outcome |-> outcome, writes |-> writes]

\* The steps whose process writes at most b lines.
Steps(b) ==
    {NewStep("io", <<>>)} \cup
    UNION {{NewStep(o, w) : o \in {"ok", "exit"}, w \in [1..n -> Streams]} : n \in 0..b}

RECURSIVE StepLists(_)
\* The step lists on a budget of b steps and lines.
StepLists(b) ==
    IF b = 0 THEN {<<>>}
    ELSE {<<>>} \cup UNION {{<<s>> \o rest : rest \in StepLists(b - 1 - Len(s.writes))}
                            : s \in Steps(b - 1)}

RECURSIVE StepListSize(_)
StepListSize(ss) ==
    IF ss = <<>> THEN 0 ELSE 1 + Len(Head(ss).writes) + StepListSize(Tail(ss))

RECURSIVE GenTasks(_, _, _)
\* Tasks i..k of a job of k tasks, on a budget of b depends entries, steps and
\* lines.
GenTasks(i, k, b) ==
    IF i > k THEN {<<>>}
    ELSE UNION {
           UNION {
             {<<[name |-> TaskNames[i], depends |-> d, steps |-> s]>> \o rest :
                 rest \in GenTasks(i + 1, k, b - Len(d) - StepListSize(s))}
             : s \in StepLists(b - Len(d))}
           : d \in DependsLists(Prefix(TaskNames, k), b)}

\* The task lists of a job on a budget of b tasks, depends entries, steps and
\* lines.
TaskLists == [b \in 0..MaxSize |-> UNION {GenTasks(1, k, b - k) : k \in 0..b}]

RECURSIVE TaskListSize(_)
TaskListSize(ts) ==
    IF ts = <<>> THEN 0
    ELSE 1 + Len(Head(ts).depends) + StepListSize(Head(ts).steps) + TaskListSize(Tail(ts))

RECURSIVE GenJobs(_, _, _)
GenJobs(i, n, b) ==
    IF i > n THEN {<<>>}
    ELSE UNION {
           UNION {
             {<<[name |-> JobNames[i], depends |-> d, tasks |-> ts]>> \o rest :
                 rest \in GenJobs(i + 1, n, b - Len(d) - TaskListSize(ts))}
             : ts \in TaskLists[b - Len(d)]}
           : d \in DependsLists(Prefix(JobNames, n), b)}

SmallInputs == UNION {GenJobs(1, n, MaxSize - n) : n \in 0..MaxSize}

NewJob(name, depends, tasks) == [name |-> name, depends |-> depends, tasks |-> tasks]
NewTask(name, depends, steps) == [name |-> name, depends |-> depends, steps |-> steps]

\* a step whose process exits with code zero and writes nothing; `echo ok`;
\* a step whose process exits with a non-zero code
Quiet == NewStep("ok", <<>>)
EchoOk == NewStep("ok", <<"out">>)
Exit1 == NewStep("exit", <<>>)

\* a job of one task of the one step `echo ok`
OneEcho == <<NewJob("A", <<>>, <<NewTask("T1", <<>>, <<EchoOk>>)>>)>>

\* a job with two independent tasks, each of the one step `echo ok`
TwoTasks ==
    <<NewJob("A", <<>>, <<NewTask("T1", <<>>, <<EchoOk>>), NewTask("T2", <<>>, <<EchoOk>>)>>)>>

\* a job with a task T2 that depends on task T1, whose step exits with code 1
FailingTask ==
    <<NewJob("A", <<>>, <<NewTask("T1", <<>>, <<Exit1>>),
                          NewTask("T2", <<"T1">>, <<Quiet>>)>>)>>

\* three jobs, C depends on A and B, which depend on nothing
Diamond ==
    <<NewJob("A", <<>>, <<NewTask("T1", <<>>, <<Quiet>>)>>),
      NewJob("B", <<>>, <<NewTask("T1", <<>>, <<Quiet>>)>>),
      NewJob("C", <<"A", "B">>, <<>>)>>

\* a job whose tasks T1 and T2 depend on each other
TaskCycle ==
    <<NewJob("A", <<>>, <<NewTask("T1", <<"T2">>, <<Quiet>>),
                          NewTask("T2", <<"T1">>, <<Quiet>>)>>)>>

\* a job outside any cycle, a job that depends on itself, a job that depends
\* on that one
JobCycle ==
    <<NewJob("A", <<>>, <<>>), NewJob("B", <<"B">>, <<>>), NewJob("C", <<"B">>, <<>>)>>

\* the job of FailingTask and a job that depends on it
FailingJob ==
    FailingTask \o <<NewJob("B", <<"A">>, <<NewTask("T1", <<>>, <<Quiet>>)>>)>>

\* a job of one task of one step, whose process writes a line to its standard
\* output, then a line to its standard error
TwoStreams ==
    <<NewJob("A", <<>>, <<NewTask("T1", <<>>, <<NewStep("ok", <<"out", "err">>)>>)>>)>>

\* a job whose task fails, and an independent job with a task T2 that depends
\* on its task T1
Abandoned ==
    <<NewJob("A", <<>>, <<NewTask("T1", <<>>, <<Exit1>>)>>),
      NewJob("B", <<>>, <<NewTask("T1", <<>>, <<>>), NewTask("T2", <<"T1">>, <<Quiet>>)>>)>>

\* a job with a task that is ready and a task that depends on a task the job
\* does not have
MissingTask ==
    <<NewJob("A", <<>>, <<NewTask("T1", <<>>, <<Quiet>>), NewTask("T2", <<Missing>>, <<>>)>>)>>

Scenarios ==
    {TwoTasks, FailingTask, FailingJob, Diamond, TaskCycle, JobCycle, TwoStreams, Abandoned,
     MissingTask}

Inputs == SmallInputs \cup Scenarios

(***************************************************************************)
(* Pure helpers of the code.                                               *)
(***************************************************************************)
\* Vec::retain dropping the element at position k
RemoveAt(s, k) == SubSeq(s, 1, k - 1) \o SubSeq(s, k + 1, Len(s))

\* `rest` as running without its last element, whichever unit was returned.
SwapRemoveLast(s, k) == SubSeq(s, 1, Len(s) - 1)

\* select_all (lib.rs:132, 344) hands back the futures it did not return as
\* `rest`, after Vec::swap_remove of the returned one.
SwapRemove(s, k) ==
    IF k = Len(s) THEN SubSeq(s, 1, Len(s) - 1)
    ELSE [SubSeq(s, 1, Len(s) - 1) EXCEPT ![k] = s[Len(s)]]

\* Job::ready that takes a job's dependency on itself as satisfied.
JobReadySelf(job, finished) ==
    \A i \in DOMAIN job.depends :
        \/ job.depends[i] = job.name
        \/ \E k \in DOMAIN finished : finished[k].name = job.depends[i]

\* Job::ready against a finished list that is never filled.
JobReadyStale(job, finished) == job.depends = <<>>

\* Job::ready with `any` for `all`: one finished dependency is enough.
JobReadyAny(job, finished) ==
    \/ job.depends = <<>>
    \/ \E i \in DOMAIN job.depends :
          \E k \in DOMAIN finished : finished[k].name = job.depends[i]

\* Job::ready: every name of depends is the name of some finished job.
JobReady(job, finished) ==
    \A i \in DOMAIN job.depends :
        \E k \in DOMAIN finished : finished[k].name = job.depends[i]

\* Task::ready
TaskReady(task, finished) ==
    \A i \in DOMAIN task.depends :
        \E k \in DOMAIN finished : finished[k].name = task.depends[i]

\* The names of `depends` that no node of `nodes` has, in the order of depends
\* (the test of lib.rs:77 and lib.rs:272).
MissingOf(depends, nodes) ==
    SelectSeq(depends, LAMBDA name : ~ \E k \in DOMAIN nodes : nodes[k].name = name)

\* Runner::run's first loop looking at the depends of its first job only.
FirstBadJobOfFirst(jobs) ==
    IF jobs # <<>> /\ MissingOf(jobs[1].depends, jobs) # <<>> THEN 1 ELSE 0

\* Runner::run's first loop: the first job (in declaration order) that has a
\* missing dependency, 0 when there is none.
FirstBadJob(jobs) ==
    LET bad == {i \in DOMAIN jobs : MissingOf(jobs[i].depends, jobs) # <<>>}
    IN  IF bad = {} THEN 0 ELSE Min(bad)

\* Job::run's first loop returning after its first task.
FirstBadTaskOfFirst(tasks) ==
    IF tasks # <<>> /\ MissingOf(tasks[1].depends, tasks) # <<>> THEN 1 ELSE 0

\* Job::run's first loop, over the tasks of the job.
FirstBadTask(tasks) ==
    LET bad == {i \in DOMAIN tasks : MissingOf(tasks[i].depends, tasks) # <<>>}
    IN  IF bad = {} THEN 0 ELSE Min(bad)

\* The JobStatus that Runner::run inserts for a job (lib.rs:278-294).
JobStatusOf(job) ==
    [name |-> job.name,
     depends |-> job.depends,
     tasks |-> [t \in DOMAIN job.tasks |->
                  [name |-> job.tasks[t].name,
                   depends |-> job.tasks[t].depends,
                   steps |-> [i \in DOMAIN job.tasks[t].steps |->
                                [output |-> <<>>, status |-> "Pending"]],
                   status |-> "Pending"]],
     status |-> "Pending"]

\* The map after tracker.insert of the first n jobs, in order: HashMap::insert
\* replaces the record of an equal name.
Inserted(jobs, n) ==
    [name \in {jobs[i].name : i \in 1..n} |->
        JobStatusOf(jobs[CHOOSE i \in 1..n :
                           /\ jobs[i].name = name
                           /\ \A k \in 1..n : jobs[k].name = name => k <= i])]

(***************************************************************************)
(* The tracker's three views.  Each modify is one critical section of the  *)
(* Mutex of JobTracker.jobs.                                               *)
(***************************************************************************)
JobTrackerGet(trk, name) ==
    IF name \in DOMAIN trk THEN <<trk[name]>> ELSE <<>>

\* job.tasks.iter_mut().find(|task| task.name == name): the first such task
FindTask(job, name) ==
    LET hit == {k \in DOMAIN job.tasks : job.tasks[k].name = name}
    IN  IF hit = {} THEN 0 ELSE Min(hit)

TaskTrackerGet(trk, job_name, name) ==
    IF job_name \in DOMAIN trk /\ FindTask(trk[job_name], name) # 0
    THEN <<trk[job_name].tasks[FindTask(trk[job_name], name)]>>
    ELSE <<>>

StepTrackerGet(trk, job_name, task_name, index) ==
    LET task == TaskTrackerGet(trk, job_name, task_name)
    IN  IF task # <<>> /\ index \in DOMAIN task[1].steps
        THEN <<task[1].steps[index]>> ELSE <<>>

\* JobTracker::modify that inserts a record for a name that has none.
SetJobStatusUpsert(trk, name, status) ==
    [n \in DOMAIN trk \cup {name} |->
        IF n = name
        THEN [name |-> name, depends |-> <<>>, tasks |-> <<>>, status |-> status]
        ELSE trk[n]]

\* JobTracker::modify with the mutator |job| job.status = status: one
\* critical section; nothing happens when the name has no record.
SetJobStatus(trk, name, status) ==
    IF name \in DOMAIN trk THEN [trk EXCEPT ![name].status = status] ELSE trk

\* TaskTracker::modify with the mutator |task| task.status = status, through
\* JobTracker::modify of the task's job.
SetTaskStatus(trk, job_name, name, status) ==
    IF TaskTrackerGet(trk, job_name, name) = <<>> THEN trk
    ELSE [trk EXCEPT ![job_name].tasks[FindTask(trk[job_name], name)].status = status]

\* StepTracker::modify with the mutator |step| *status = status, through
\* TaskTracker::modify of the step's task.
SetStepStatus(trk, job_name, task_name, index, status) ==
    IF StepTrackerGet(trk, job_name, task_name, index) = <<>> THEN trk
    ELSE [trk EXCEPT ![job_name].tasks[FindTask(trk[job_name], task_name)]
                        .steps[index].status = status]

(***************************************************************************)
(* The state after construction: the Loader has filled Runner.jobs, the    *)
(* tracker is empty (JobTracker::new), nothing has been spawned.           *)
(***************************************************************************)
IdleJob(job) ==
    [pc |-> "idle",            \* idle, start, pass, mark, done
     pending |-> <<>>,         \* Job::run's locals, as positions in job.tasks
     running |-> <<>>,
     finished |-> <<>>,
     cur |-> 0,                \* the task spawned at lib.rs:101 and not yet marked
     res |-> NoResult,         \* what Job::run returned
     tasks |-> [t \in DOMAIN job.tasks |-> t]]     \* self.tasks

IdleTask ==
    [pc |-> "idle",            \* idle, run, step, ret, done
     index |-> 1,              \* the step Task::run's loop is at
     read |-> <<>>,            \* per started step and stream: the lines its reader has logged
     res |-> NoResult]         \* what Task::run returned

Init ==
    /\ input \in Inputs
    /\ tracker = <<>>
    /\ runner = [pc |-> "validate",      \* validate, pass, mark, done
                 pending |-> <<>>,       \* Runner::run's locals, as positions in input
                 running |-> <<>>,
                 finished |-> <<>>,
                 cur |-> 0,              \* the job spawned at lib.rs:314 and not yet marked
                 res |-> NoResult,       \* what Runner::run returned
                 jobs |-> [j \in DOMAIN input |-> j]]     \* self.jobs
    /\ junit = [j \in DOMAIN input |-> IdleJob(input[j])]
    /\ tunit = [j \in DOMAIN input |-> [t \in DOMAIN input[j].tasks |-> IdleTask]]

Jobs == DOMAIN input
TasksOf(j) == DOMAIN input[j].tasks

\* lib.rs:75-86: the unit of a job starts with Job::run's check of every
\* task's depends, which reads only the unit's own clone of the job.  It is
\* taken together with the spawn: the unit is at "start" when the check fails
\* (JobMissing returns the error), else at the head of the loop with every
\* task pending.
JobValidate(job) ==
    IF FirstBadTask(job.tasks) # 0
    THEN [IdleJob(job) EXCEPT !.pc = "start"]
    ELSE [IdleJob(job) EXCEPT !.pc = "pass", !.pending = [t \in DOMAIN job.tasks |-> t]]

(***************************************************************************)
(* Runner::run                                                             *)
(***************************************************************************)
\* The Vec<Job> `finished` of Runner::run
RunnerFinished == [k \in DOMAIN runner.finished |-> input[runner.finished[k]]]

\* The positions in `pending` of the jobs retain's closure finds ready.
RunnerReady ==
    {k \in DOMAIN runner.pending : JobReady(input[runner.pending[k]], RunnerFinished)}

\* lib.rs:269-299: check every job's depends and insert its JobStatus, job by
\* job; the first missing name ends the run.
RunnerValidate ==
    /\ runner.pc = "validate"
    /\ LET bad == FirstBadJob(input) IN
        IF bad # 0
        THEN /\ tracker' = Inserted(input, bad - 1)
             /\ runner' = [runner EXCEPT
                     !.pc = "done",
                     !.res = ErrMissingDependency(
                                 <<Head(MissingOf(input[bad].depends, input))>>)]
        ELSE /\ tracker' = Inserted(input, Len(input))
             /\ runner' = [runner EXCEPT
                     !.pc = "pass",
                     !.pending = [j \in DOMAIN input |-> j]]
    /\ UNCHANGED <<input, junit, tunit>>

\* lib.rs:303-329: retain's closure reaches the next ready job and spawns its
\* unit of work (`finished` does not change during a retain, so the next ready
\* job is the first ready one that is still pending).
RunnerSpawn ==
    /\ runner.pc = "pass"
    /\ RunnerReady # {}
    /\ LET j == runner.pending[Min(RunnerReady)] IN
        /\ runner' = [runner EXCEPT
                !.pc = "mark", !.cur = j, !.running = Append(@, j)]
        /\ junit' = [junit EXCEPT ![j] = JobValidate(input[j])]
    /\ UNCHANGED <<input, tracker, tunit>>

\* The closure of lib.rs:303-340 answering true for the job it has just
\* spawned: the job is marked Running and retain keeps it in pending.
RunnerMarkKeep ==
    /\ runner.pc = "mark"
    /\ tracker' = SetJobStatus(tracker, input[runner.cur].name, "Running")
    /\ runner' = [runner EXCEPT !.pc = "pass", !.cur = 0]
    /\ UNCHANGED <<input, junit, tunit>>

\* lib.rs:330-335: mark the job just spawned Running and drop it from pending.
RunnerMark ==
    /\ runner.pc = "mark"
    /\ tracker' = SetJobStatus(tracker, input[runner.cur].name, "Running")
    /\ runner' = [runner EXCEPT
            !.pc = "pass", !.cur = 0,
            !.pending = RemoveAt(@, CHOOSE k \in DOMAIN @ : @[k] = runner.cur)]
    /\ UNCHANGED <<input, junit, tunit>>

\* The positions in `running` of the units that have completed.
RunnerDone == {k \in DOMAIN runner.running : junit[runner.running[k]].pc = "done"}

\* The match of lib.rs:348-359 with a failed job pushed to finished like a
\* successful one.
RunnerRetireAll ==
    /\ runner.pc = "pass"
    /\ RunnerReady = {}
    /\ RunnerDone # {}
    /\ LET k == Min(RunnerDone) IN
        runner' = [runner EXCEPT
            !.running = SwapRemove(@, k),
            !.finished = Append(@, runner.running[k])]
    /\ UNCHANGED <<input, tracker, junit, tunit>>

\* The wait taken after the first launch of a pass, ready nodes left pending:
\* a pass that launches one node at a time.
RunnerRetireEarly ==
    /\ runner.pc = "pass"
    /\ RunnerDone # {}
    /\ LET k == Min(RunnerDone)
           j == runner.running[k]
       IN  IF junit[j].res = Ok
           THEN runner' = [runner EXCEPT
                    !.running = SwapRemove(@, k),
                    !.finished = Append(@, j)]
           ELSE runner' = [runner EXCEPT
                    !.running = SwapRemove(@, k),
                    !.pc = "done",
                    !.res = junit[j].res]
    /\ UNCHANGED <<input, tracker, junit, tunit>>

\* lib.rs:342-359: select_all returns the first completed unit of `running`;
\* Ok(Ok(job)) goes to finished, Ok(Err(e)) ends the run with e.  (Err(e), a
\* JoinError, needs a unit that panics or is aborted; none does.)
RunnerRetire ==
    /\ runner.pc = "pass"
    /\ RunnerReady = {}
    /\ RunnerDone # {}
    /\ LET k == Min(RunnerDone)
           j == runner.running[k]
       IN  IF junit[j].res = Ok
           THEN runner' = [runner EXCEPT
                    !.running = SwapRemove(@, k),
                    !.finished = Append(@, j)]
           ELSE runner' = [runner EXCEPT
                    !.running = SwapRemove(@, k),
                    !.pc = "done",
                    !.res = junit[j].res]
    /\ UNCHANGED <<input, tracker, junit, tunit>>

\* The success branch taken on pending.is_empty() alone, with units still in
\* flight.
RunnerOkEarly ==
    /\ runner.pc = "pass"
    /\ RunnerReady = {}
    /\ runner.pending = <<>>
    /\ runner' = [runner EXCEPT !.pc = "done", !.res = Ok, !.jobs = runner.finished]
    /\ UNCHANGED <<input, tracker, junit, tunit>>

\* lib.rs:360-362
RunnerOk ==
    /\ runner.pc = "pass"
    /\ RunnerReady = {}
    /\ runner.running = <<>>
    /\ runner.pending = <<>>
    /\ runner' = [runner EXCEPT !.pc = "done", !.res = Ok, !.jobs = runner.finished]
    /\ UNCHANGED <<input, tracker, junit, tunit>>

\* lib.rs:363-364
RunnerCircular ==
    /\ runner.pc = "pass"
    /\ RunnerReady = {}
    /\ runner.running = <<>>
    /\ runner.pending # <<>>
    /\ runner' = [runner EXCEPT !.pc = "done", !.res = ErrCircularDependency]
    /\ UNCHANGED <<input, tracker, junit, tunit>>

(***************************************************************************)
(* The unit of work of a job (lib.rs:314-329): Job::run, then the closure  *)
(* records Finished or Failed and the unit completes.  Between two         *)
(* accesses to shared state (the tracker, a spawn, a JoinHandle) the unit   *)
(* takes one step.                                                         *)
(***************************************************************************)
\* The status the closures of lib.rs:102-115 and 315-328 record for a result.
ClosureStatus(res) == IF res = Ok THEN "Finished" ELSE "Failed"

\* Job::run returns res; the closure records the job's status; the unit completes.
JobReturns(j, res) ==
    /\ junit' = [junit EXCEPT ![j].pc = "done", ![j].res = res]
    /\ tracker' = SetJobStatus(tracker, input[j].name, ClosureStatus(res))

\* The Vec<Task> `finished` of Job::run
JobFinished(j) == [k \in DOMAIN junit[j].finished |-> input[j].tasks[junit[j].finished[k]]]

JobReadyTasks(j) ==
    {k \in DOMAIN junit[j].pending :
        TaskReady(input[j].tasks[junit[j].pending[k]], JobFinished(j))}

\* lib.rs:75-82: Job::run found a depends entry that names no task of the job.
JobMissing(j) ==
    /\ junit[j].pc = "start"
    /\ LET bad == FirstBadTask(input[j].tasks) IN
        JobReturns(j, ErrMissingDependency(
            <<input[j].name,
              Head(MissingOf(input[j].tasks[bad].depends, input[j].tasks))>>))
    /\ UNCHANGED <<input, runner, tunit>>

\* The launch of a ready task that stops once Runner::run has returned: a
\* job that is cancelled with the run.
JobSpawnUnlessReturned(j) ==
    /\ runner.pc # "done"
    /\ junit[j].pc = "pass"
    /\ JobReadyTasks(j) # {}
    /\ LET t == junit[j].pending[Min(JobReadyTasks(j))] IN
        /\ junit' = [junit EXCEPT
                ![j].pc = "mark", ![j].cur = t, ![j].running = Append(@, t)]
        /\ tunit' = [tunit EXCEPT ![j][t].pc = "run"]
    /\ UNCHANGED <<input, tracker, runner>>

\* lib.rs:90-116
JobSpawn(j) ==
    /\ junit[j].pc = "pass"
    /\ JobReadyTasks(j) # {}
    /\ LET t == junit[j].pending[Min(JobReadyTasks(j))] IN
        /\ junit' = [junit EXCEPT
                ![j].pc = "mark", ![j].cur = t, ![j].running = Append(@, t)]
        /\ tunit' = [tunit EXCEPT ![j][t].pc = "run"]
    /\ UNCHANGED <<input, tracker, runner>>

\* lib.rs:117-122
JobMark(j) ==
    /\ junit[j].pc = "mark"
    /\ tracker' = SetTaskStatus(tracker, input[j].name,
                                input[j].tasks[junit[j].cur].name, "Running")
    /\ junit' = [junit EXCEPT
            ![j].pc = "pass", ![j].cur = 0,
            ![j].pending = RemoveAt(@, CHOOSE k \in DOMAIN @ : @[k] = junit[j].cur)]
    /\ UNCHANGED <<input, runner, tunit>>

JobDone(j) == {k \in DOMAIN junit[j].running : tunit[j][junit[j].running[k]].pc = "done"}

\* lib.rs:130-147
JobRetire(j) ==
    /\ junit[j].pc = "pass"
    /\ JobReadyTasks(j) = {}
    /\ JobDone(j) # {}
    /\ LET k == Min(JobDone(j))
           t == junit[j].running[k]
       IN  IF tunit[j][t].res = Ok
           THEN /\ junit' = [junit EXCEPT
                        ![j].running = SwapRemove(@, k),
                        ![j].finished = Append(@, t)]
                /\ UNCHANGED tracker
           ELSE /\ junit' = [junit EXCEPT
                        ![j].running = SwapRemove(@, k),
                        ![j].pc = "done",
                        ![j].res = tunit[j][t].res]
                /\ tracker' = SetJobStatus(tracker, input[j].name,
                                           ClosureStatus(tunit[j][t].res))
    /\ UNCHANGED <<input, runner, tunit>>

\* lib.rs:148-150
JobOk(j) ==
    /\ junit[j].pc = "pass"
    /\ JobReadyTasks(j) = {}
    /\ junit[j].running = <<>>
    /\ junit[j].pending = <<>>
    /\ junit' = [junit EXCEPT
            ![j].pc = "done", ![j].res = Ok, ![j].tasks = junit[j].finished]
    /\ tracker' = SetJobStatus(tracker, input[j].name, ClosureStatus(Ok))
    /\ UNCHANGED <<input, runner, tunit>>

\* lib.rs:151-152
JobCircular(j) ==
    /\ junit[j].pc = "pass"
    /\ JobReadyTasks(j) = {}
    /\ junit[j].running = <<>>
    /\ junit[j].pending # <<>>
    /\ JobReturns(j, ErrCircularDependency)
    /\ UNCHANGED <<input, runner, tunit>>

(***************************************************************************)
(* The unit of work of a task (lib.rs:101-116): Task::run runs Step::run   *)
(* step by step, then the closure records Finished or Failed.              *)
(***************************************************************************)
\* Result of Step::run for what its process does (lib.rs:413, 437-458)
StepResult(outcome) ==
    CASE outcome = "ok" -> Ok
      [] outcome = "exit" -> ErrExit
      [] outcome = "io" -> ErrIo

\* The status Step::run records once the process is over: Finished, Failed,
\* or nothing when `?` returned early (the step record keeps Running).
StepEndStatus(outcome) ==
    CASE outcome = "ok" -> "Finished"
      [] outcome = "exit" -> "Failed"
      [] outcome = "io" -> "Running"

\* Task::run without the `?`: the loop goes on whatever a step returned.
TaskContinuesAlways(res) == TRUE

\* Task::run's `?` at lib.rs:535: the loop goes on to the next step only
\* after an Ok.
TaskContinues(res) == res = Ok

\* The lines of `writes` that go to `stream`, as their positions in writes, in
\* the order the process writes them: what the reader of that pipe reads.
LinesOf(writes, stream) ==
    LET at == {k \in DOMAIN writes : writes[k] = stream}
    IN  [n \in 1..Cardinality(at) |->
            CHOOSE k \in at : Cardinality({m \in at : m < k}) = n - 1]

\* StepTracker::log that stores the line in place of the output so far.
LogLineReplace(trk, job_name, task_name, index, line) ==
    IF StepTrackerGet(trk, job_name, task_name, index) = <<>> THEN trk
    ELSE [trk EXCEPT ![job_name].tasks[FindTask(trk[job_name], task_name)]
                        .steps[index].output = <<line>>]

\* StepTracker::log (lib.rs:496-505): one modify that pushes the line to the
\* step's output; nothing happens when the step has no record.
LogLine(trk, job_name, task_name, index, line) ==
    IF StepTrackerGet(trk, job_name, task_name, index) = <<>> THEN trk
    ELSE [trk EXCEPT ![job_name].tasks[FindTask(trk[job_name], task_name)]
                        .steps[index].output = Append(@, line)]

\* lib.rs:400-435: Step::run marks the step Running, then starts the process
\* and spawns the two readers of its pipes (when the process cannot be
\* started, `?` returns at lib.rs:413 and no reader exists: StepExit).  The
\* process is taken to write its lines without waiting for the readers.
StepStart(j, t) ==
    /\ tunit[j][t].pc = "run"
    /\ tunit[j][t].index \in DOMAIN input[j].tasks[t].steps
    /\ tracker' = SetStepStatus(tracker, input[j].name, input[j].tasks[t].name,
                                tunit[j][t].index, "Running")
    /\ tunit' = [tunit EXCEPT ![j][t].pc = "step",
                              ![j][t].read = Append(@, [s \in Streams |-> 0])]
    /\ UNCHANGED <<input, runner, junit>>

\* lib.rs:417-424 and 428-435: the reader of one pipe of step i has read its
\* next line and logs it.  A line is recorded as its position in the writes
\* of the process.
ReaderLog(j, t, i, stream) ==
    /\ i \in DOMAIN tunit[j][t].read
    /\ LET lines == LinesOf(input[j].tasks[t].steps[i].writes, stream)
           n == tunit[j][t].read[i][stream]
       IN  /\ n < Len(lines)
           /\ tracker' = LogLine(tracker, input[j].name, input[j].tasks[t].name,
                                  i, lines[n + 1])
           /\ tunit' = [tunit EXCEPT ![j][t].read[i][stream] = n + 1]
    /\ UNCHANGED <<input, runner, junit>>

\* lib.rs:437-458: the process has exited (or could not be started, or
\* awaited); Step::run records the end status and returns.
StepExit(j, t) ==
    /\ tunit[j][t].pc = "step"
    /\ LET i == tunit[j][t].index
           outcome == input[j].tasks[t].steps[i].outcome
       IN  /\ tracker' = SetStepStatus(tracker, input[j].name, input[j].tasks[t].name,
                                       i, StepEndStatus(outcome))
           /\ tunit' = [tunit EXCEPT
                   ![j][t] = IF TaskContinues(StepResult(outcome))
                             THEN [@ EXCEPT !.pc = "run", !.index = i + 1]
                             ELSE [@ EXCEPT !.pc = "ret", !.res = StepResult(outcome)]]
    /\ UNCHANGED <<input, runner, junit>>

\* lib.rs:102-115: Task::run has returned (Ok after the last step, or the
\* error of a step); the closure records the task's status and the unit
\* completes.
TaskComplete(j, t) ==
    /\ \/ tunit[j][t].pc = "ret"
       \/ /\ tunit[j][t].pc = "run"
          /\ tunit[j][t].index \notin DOMAIN input[j].tasks[t].steps
    /\ LET res == IF tunit[j][t].pc = "ret" THEN tunit[j][t].res ELSE Ok IN
        /\ tunit' = [tunit EXCEPT ![j][t].pc = "done", ![j][t].res = res]
        /\ tracker' = SetTaskStatus(tracker, input[j].name, input[j].tasks[t].name,
                                    ClosureStatus(res))
    /\ UNCHANGED <<input, runner, junit>>

Next ==
    \/ RunnerValidate
    \/ RunnerSpawn
    \/ RunnerMark
    \/ RunnerRetire
    \/ RunnerOk
    \/ RunnerCircular
    \/ \E j \in Jobs :
          \/ JobMissing(j)
          \/ JobSpawn(j)
          \/ JobMark(j)
          \/ JobRetire(j)
          \/ JobOk(j)
          \/ JobCircular(j)
          \/ \E t \in TasksOf(j) :
                \/ StepStart(j, t)
                \/ StepExit(j, t)
                \/ TaskComplete(j, t)
                \/ \E i \in DOMAIN input[j].tasks[t].steps : \E stream \in Streams :
                      ReaderLog(j, t, i, stream)

(***************************************************************************)
(* The engine on collections the Loader hands over with a name used twice: *)
(* Loader::load_file pushes every job it parses (lib.rs:242-247), so two   *)
(* files can define jobs of one name, and a job file can list two tasks of *)
(* one name.                                                               *)
(***************************************************************************)
\* jobs with its job k once more at the end
WithJobAgain(jobs, k) == Append(jobs, jobs[k])

\* jobs with task u of its job k once more at the end of the job's tasks
WithTaskAgain(jobs, k, u) ==
    [jobs EXCEPT ![k].tasks = Append(@, jobs[k].tasks[u])]

DupInputs ==
    UNION {{WithJobAgain(jobs, k) : k \in DOMAIN jobs} \cup
           UNION {{WithTaskAgain(jobs, k, u) : u \in DOMAIN jobs[k].tasks} : k \in DOMAIN jobs}
           : jobs \in {OneEcho, FailingTask, TaskCycle, JobCycle, MissingTask}}

DupInit ==
    /\ input \in DupInputs
    /\ tracker = <<>>
    /\ runner = [pc |-> "validate", pending |-> <<>>, running |-> <<>>,
                 finished |-> <<>>, cur |-> 0, res |-> NoResult,
                 jobs |-> [j \in DOMAIN input |-> j]]
    /\ junit = [j \in DOMAIN input |-> IdleJob(input[j])]
    /\ tunit = [j \in DOMAIN input |-> [t \in DOMAIN input[j].tasks |-> IdleTask]]

DupSpec == DupInit /\ [][Next]_vars

(***************************************************************************)
(* The tracker on its own: any caller holding a JobTracker, a TaskTracker  *)
(* or a StepTracker calls modify and log with any name and index, known or *)
(* not, on the records Runner::run inserted for a collection of jobs.      *)
(***************************************************************************)
\* enum Status
StatusValues == {"Pending", "Running", "Finished", "Failed"}

TrackerInputs == {TwoTasks, TwoStreams}

TrackerInit ==
    /\ input \in TrackerInputs
    /\ tracker = Inserted(input, Len(input))
    /\ runner = [pc |-> "validate", pending |-> <<>>, running |-> <<>>,
                 finished |-> <<>>, cur |-> 0, res |-> NoResult,
                 jobs |-> [j \in DOMAIN input |-> j]]
    /\ junit = [j \in DOMAIN input |-> IdleJob(input[j])]
    /\ tunit = [j \in DOMAIN input |-> [t \in DOMAIN input[j].tasks |-> IdleTask]]

\* the names and indexes a caller may pass: those of the records, a name that
\* no record has, an index past the last step
CallJobNames == {input[j].name : j \in Jobs} \cup {Missing}
CallTaskNames == UNION {{input[j].tasks[t].name : t \in TasksOf(j)} : j \in Jobs} \cup {Missing}
CallIndexes ==
    UNION {UNION {1..(Len(input[j].tasks[t].steps) + 1) : t \in TasksOf(j)} : j \in Jobs}

CallJobModify ==
    \E name \in CallJobNames : \E status \in StatusValues :
        /\ tracker' = SetJobStatus(tracker, name, status)
        /\ UNCHANGED <<input, runner, junit, tunit>>

CallTaskModify ==
    \E job_name \in CallJobNames : \E name \in CallTaskNames : \E status \in StatusValues :
        /\ tracker' = SetTaskStatus(tracker, job_name, name, status)
        /\ UNCHANGED <<input, runner, junit, tunit>>

CallStepModify ==
    \E job_name \in CallJobNames : \E task_name \in CallTaskNames :
      \E index \in CallIndexes : \E status \in StatusValues :
        /\ tracker' = SetStepStatus(tracker, job_name, task_name, index, status)
        /\ UNCHANGED <<input, runner, junit, tunit>>

\* the lines the process of an addressed step writes
WritesAt(job_name, task_name, index) ==
    LET j == CHOOSE j \in Jobs : input[j].name = job_name
    IN  input[j].tasks[FindTask(input[j], task_name)].steps[index].writes

\* a line is logged to a step as long as its process has one more to write;
\* to a step that has no record, always
CallLog ==
    \E job_name \in CallJobNames : \E task_name \in CallTaskNames : \E index \in CallIndexes :
        LET step == StepTrackerGet(tracker, job_name, task_name, index) IN
        /\ step # <<>> =>
               Len(step[1].output) < Len(WritesAt(job_name, task_name, index))
        /\ tracker' = LogLine(tracker, job_name, task_name, index,
                               IF step = <<>> THEN 1 ELSE Len(step[1].output) + 1)
        /\ UNCHANGED <<input, runner, junit, tunit>>

TrackerNext == CallJobModify \/ CallTaskModify \/ CallStepModify \/ CallLog

TrackerSpec == TrackerInit /\ [][TrackerNext]_vars

Spec == Init /\ [][Next]_vars

\* tokio keeps polling every spawned unit and every process is assumed to end:
\* whatever can take a step eventually does.
FairSpec == Spec /\ WF_vars(Next)

(***************************************************************************)
(* What the properties below speak of.                                     *)
(***************************************************************************)
Tracked(j) == input[j].name \in DOMAIN tracker
\* the status the tracker holds for job j, for its task t, for the task's step i
JobStatus(j) == tracker[input[j].name].status
TaskStatus(j, t) == tracker[input[j].name].tasks[t].status
StepStatus(j, t, i) == tracker[input[j].name].tasks[t].steps[i].status
StepsOf(j, t) == DOMAIN input[j].tasks[t].steps

\* the run() of job j / of task t of job j has been launched; is in flight;
\* has returned success
JobLaunched(j) == junit[j].pc # "idle"
JobInFlight(j) == junit[j].pc \notin {"idle", "done"}
JobSucceeded(j) == junit[j].pc = "done" /\ junit[j].res = Ok
TaskLaunched(j, t) == tunit[j][t].pc # "idle"
TaskInFlight(j, t) == tunit[j][t].pc \notin {"idle", "done"}
TaskSucceeded(j, t) == tunit[j][t].pc = "done" /\ tunit[j][t].res = Ok

Range(s) == {s[k] : k \in DOMAIN s}

(***************************************************************************)
(* C1: in Runner::run and in Job::run a node's run() is launched only      *)
(* after the run() of every node its depends list names has returned       *)
(* success and has been retired into the finished list of the same         *)
(* scheduler.                                                              *)
(***************************************************************************)
C1_LaunchedAfterDepends ==
    /\ \A j \in Jobs : JobLaunched(j) =>
          \A i \in DOMAIN input[j].depends :
              \E k \in Range(runner.finished) :
                  input[k].name = input[j].depends[i] /\ JobSucceeded(k)
    /\ \A j \in Jobs : \A t \in TasksOf(j) : TaskLaunched(j, t) =>
          \A i \in DOMAIN input[j].tasks[t].depends :
              \E k \in Range(junit[j].finished) :
                  /\ input[j].tasks[k].name = input[j].tasks[t].depends[i]
                  /\ TaskSucceeded(j, k)

\* Job c depends on two other jobs a and b, which are in flight at the same
\* time while c is still pending.
C1_Witness ==
    \E a, b, c \in Jobs :
        /\ a # b /\ a # c /\ b # c
        /\ Range(input[c].depends) = {input[a].name, input[b].name}
        /\ JobInFlight(a) /\ JobInFlight(b)
        /\ ~ JobLaunched(c)
        /\ c \in Range(runner.pending)

(***************************************************************************)
(* C2: the status the tracker holds for a job, a task or a step only moves *)
(* Pending -> Running -> Finished or Pending -> Running -> Failed: no step *)
(* of the system takes it back, out of Finished or Failed, or from Pending *)
(* past Running.                                                           *)
(***************************************************************************)
StatusMove(old, new) ==
    \/ new = old
    \/ old = "Pending" /\ new = "Running"
    \/ old = "Running" /\ new \in {"Finished", "Failed"}

C2_StatusMonotonic ==
    [][\A j \in Jobs : (Tracked(j) /\ Tracked(j)') =>
          /\ StatusMove(JobStatus(j), JobStatus(j)')
          /\ \A t \in TasksOf(j) :
                /\ StatusMove(TaskStatus(j, t), TaskStatus(j, t)')
                /\ \A i \in StepsOf(j, t) :
                      StatusMove(StepStatus(j, t, i), StepStatus(j, t, i)')]_vars

(***************************************************************************)
(* C3: when Runner::run has returned Ok, the tracker holds Finished for    *)
(* every job, every task and every step.                                   *)
(***************************************************************************)
C3_OkMeansAllFinished ==
    runner.res = Ok =>
        \A j \in Jobs :
            /\ Tracked(j)
            /\ JobStatus(j) = "Finished"
            /\ \A t \in TasksOf(j) :
                  /\ TaskStatus(j, t) = "Finished"
                  /\ \A i \in StepsOf(j, t) : StepStatus(j, t, i) = "Finished"

(***************************************************************************)
(* Dependency graphs, as the properties below speak of them.  A node of a  *)
(* collection is runnable when every name of its depends is the name of a  *)
(* runnable node; the other nodes are blocked.  When every depends name    *)
(* exists, the blocked nodes are those on a cycle and those that           *)
(* transitively depend on a cycle.                                         *)
(***************************************************************************)
RECURSIVE Grow(_, _, _)
Grow(nodes, S, n) ==
    IF n = 0 THEN S
    ELSE Grow(nodes,
              {k \in DOMAIN nodes :
                  \A i \in DOMAIN nodes[k].depends :
                      \E m \in S : nodes[m].name = nodes[k].depends[i]},
              n - 1)

Runnable(nodes) == Grow(nodes, {}, Len(nodes))
Blocked(nodes) == DOMAIN nodes \ Runnable(nodes)

\* every depends entry names a node of the collection
AllPresent(nodes) ==
    \A k \in DOMAIN nodes : \A i \in DOMAIN nodes[k].depends :
        \E m \in DOMAIN nodes : nodes[m].name = nodes[k].depends[i]

\* the nodes that node k depends on, directly or not
RECURSIVE Reach(_, _, _)
Reach(nodes, S, n) ==
    IF n = 0 THEN S
    ELSE Reach(nodes,
               S \cup {m \in DOMAIN nodes :
                          \E k \in S : \E i \in DOMAIN nodes[k].depends :
                              nodes[k].depends[i] = nodes[m].name},
               n - 1)

DependsOn(nodes, k) ==
    Reach(nodes,
          {m \in DOMAIN nodes : \E i \in DOMAIN nodes[k].depends :
                                    nodes[k].depends[i] = nodes[m].name},
          Len(nodes))

\* job j is sound: its tasks are acyclic, name only tasks of the job, and
\* every step exits with code zero
SoundJob(j) ==
    /\ AllPresent(input[j].tasks)
    /\ Blocked(input[j].tasks) = {}
    /\ \A t \in TasksOf(j) : \A i \in StepsOf(j, t) : input[j].tasks[t].steps[i].outcome = "ok"

SoundInput ==
    /\ AllPresent(input)
    /\ Blocked(input) = {}
    /\ \A j \in Jobs : SoundJob(j)

(***************************************************************************)
(* C4: for an input whose job and task graphs are acyclic, with every      *)
(* depends name present and every step exiting with code zero, Runner::run *)
(* eventually returns Ok (every unit being scheduled fairly), and never    *)
(* returns anything else.                                                  *)
(***************************************************************************)
C4_SoundInputEndsOk ==
    /\ SoundInput => <>(runner.res = Ok)
    /\ [](SoundInput => runner.res \in {NoResult, Ok})

\* Runner::run has returned Ok for a sound input in which a job depends on
\* another and a task has a step.
C4_Witness ==
    /\ SoundInput
    /\ runner.res = Ok
    /\ \E j \in Jobs : input[j].depends # <<>>
    /\ \E j \in Jobs : \E t \in TasksOf(j) : input[j].tasks[t].steps # <<>>

(***************************************************************************)
(* C5: in Runner::run and in Job::run the finished list only grows, one    *)
(* retired node at its end at a time, holds no node twice and holds every  *)
(* node after all the nodes it depends on; when the scheduler returns Ok   *)
(* the list holds exactly the nodes of the collection and has replaced     *)
(* self.jobs / self.tasks.                                                 *)
(***************************************************************************)
NoRepeat(s) == \A a, b \in DOMAIN s : s[a] = s[b] => a = b

\* every node of the list `fin` of positions in `nodes` comes after the nodes
\* its depends names
DependsFirst(nodes, fin) ==
    \A k \in DOMAIN fin : \A i \in DOMAIN nodes[fin[k]].depends :
        \E m \in 1..(k - 1) : nodes[fin[m]].name = nodes[fin[k]].depends[i]

GrowsAtEnd(old, new) ==
    \/ new = old
    \/ Len(new) = Len(old) + 1 /\ SubSeq(new, 1, Len(old)) = old

C5_FinishedList ==
    /\ [](/\ NoRepeat(runner.finished)
          /\ DependsFirst(input, runner.finished)
          /\ runner.res = Ok =>
                /\ Range(runner.finished) = Jobs
                /\ runner.jobs = runner.finished
          /\ \A j \in Jobs :
                /\ NoRepeat(junit[j].finished)
                /\ DependsFirst(input[j].tasks, junit[j].finished)
                /\ junit[j].res = Ok =>
                      /\ Range(junit[j].finished) = TasksOf(j)
                      /\ junit[j].tasks = junit[j].finished)
    /\ [][/\ GrowsAtEnd(runner.finished, runner.finished')
          /\ \A j \in Jobs : GrowsAtEnd(junit[j].finished, junit[j].finished')]_vars

\* Runner::run has returned Ok and self.jobs is in completion order, which is
\* not the declaration order.
C5_Witness ==
    /\ runner.res = Ok
    /\ Len(runner.jobs) >= 2
    /\ runner.jobs[1] > runner.jobs[2]

\* nothing of job j has been launched or has left Pending in the tracker
TasksUntouched(j) ==
    \A t \in TasksOf(j) :
        /\ ~ TaskLaunched(j, t)
        /\ Tracked(j) =>
              /\ TaskStatus(j, t) = "Pending"
              /\ \A i \in StepsOf(j, t) : StepStatus(j, t, i) = "Pending"

JobUntouched(j) ==
    /\ ~ JobLaunched(j)
    /\ Tracked(j) => JobStatus(j) = "Pending"
    /\ TasksUntouched(j)

(***************************************************************************)
(* C6: when the nodes of a scheduler contain a dependency cycle (every     *)
(* depends name being present), no node on the cycle and no node that      *)
(* transitively depends on it is ever launched or leaves Pending in the    *)
(* tracker; and once the scheduler has returned, or nothing in the system  *)
(* can take a step any more, with no launched node having failed, the      *)
(* scheduler has returned CircularDependency.                              *)
(***************************************************************************)
C6_CycleIsCircularDependency ==
    /\ AllPresent(input) =>
          /\ \A j \in Blocked(input) : JobUntouched(j)
          /\ ( /\ Blocked(input) # {}
               /\ runner.pc = "done" \/ ~ ENABLED Next
               /\ \A j \in Jobs : ~ IsErr(junit[j].res) )
             => runner.res = ErrCircularDependency
    /\ \A j \in Jobs : AllPresent(input[j].tasks) =>
          /\ \A t \in Blocked(input[j].tasks) :
                /\ ~ TaskLaunched(j, t)
                /\ Tracked(j) =>
                      /\ TaskStatus(j, t) = "Pending"
                      /\ \A i \in StepsOf(j, t) : StepStatus(j, t, i) = "Pending"
          /\ ( /\ Blocked(input[j].tasks) # {}
               /\ JobLaunched(j)
               /\ junit[j].pc = "done" \/ ~ ENABLED Next
               /\ \A t \in TasksOf(j) : ~ IsErr(tunit[j][t].res) )
             => junit[j].res = ErrCircularDependency

\* Runner::run has returned CircularDependency after a job outside the cycle
\* ran to success; a job on the cycle and a job that only depends on the
\* cycle are still Pending.
C6_Witness ==
    /\ AllPresent(input)
    /\ runner.res = ErrCircularDependency
    /\ \E j \in Jobs : JobSucceeded(j)
    /\ \E a, b \in Blocked(input) :
          /\ a \in DependsOn(input, a)
          /\ b \notin DependsOn(input, b)
          /\ JobStatus(a) = "Pending" /\ JobStatus(b) = "Pending"

(***************************************************************************)
(* C7, as claimed: when a depends list of a job or of a task names a node  *)
(* that does not exist, the run returns MissingDependency naming exactly   *)
(* that name, and nothing has been launched or marked Running by then.     *)
(* (Stated for the inputs with no other defect: but for the missing task   *)
(* names, the job graph is acyclic with every name present, the task       *)
(* graphs are acyclic and every step exits with code zero.)                *)
(***************************************************************************)
JobNamesMissing == \E j \in Jobs : Missing \in Range(input[j].depends)
TaskNamesMissing(j) == \E t \in TasksOf(j) : Missing \in Range(input[j].tasks[t].depends)

\* the only defect of the input: some tasks name a task that does not exist
OnlyTaskNamesMissing ==
    /\ AllPresent(input)
    /\ Blocked(input) = {}
    /\ \E j \in Jobs : TaskNamesMissing(j)
    /\ \A j \in Jobs : TaskNamesMissing(j) \/ SoundJob(j)

C7_MissingBeforeAnythingRuns ==
    ( /\ JobNamesMissing \/ OnlyTaskNamesMissing
      /\ runner.pc = "done" )
    => /\ runner.res = ErrMissingDependency(<<Missing>>)
       /\ \A j \in Jobs : JobUntouched(j)

(***************************************************************************)
(* C7, amended: when a depends list of a job names a job that does not     *)
(* exist, Runner::run returns MissingDependency(<that name>) and nothing   *)
(* has been launched or marked Running by then.  When a depends list of a  *)
(* task names a task that does not exist in its job, no task and no step   *)
(* of that job is ever launched or marked Running, and Job::run of that    *)
(* job, once the job has been launched, returns                            *)
(* MissingDependency("<job name>/<that name>"); when the input has no      *)
(* other defect, that is what Runner::run returns (for the first such job  *)
(* whose completion it sees), the job itself and other jobs having been    *)
(* launched.                                                               *)
(***************************************************************************)
C7_MissingPerScheduler ==
    /\ (JobNamesMissing /\ runner.pc = "done") =>
          /\ runner.res = ErrMissingDependency(<<Missing>>)
          /\ \A j \in Jobs : JobUntouched(j)
    /\ \A j \in Jobs : TaskNamesMissing(j) =>
          /\ TasksUntouched(j)
          /\ junit[j].pc = "done" =>
                junit[j].res = ErrMissingDependency(<<input[j].name, Missing>>)
    /\ (OnlyTaskNamesMissing /\ runner.pc = "done") =>
          \E j \in Jobs :
              /\ TaskNamesMissing(j)
              /\ JobLaunched(j)
              /\ runner.res = ErrMissingDependency(<<input[j].name, Missing>>)

\* Job::run of a launched job has returned MissingDependency for a task's
\* depends entry, Runner::run has returned it, and the job's other task, which
\* names no missing task, is still Pending.
C7_Witness ==
    \E j \in Jobs :
        /\ junit[j].res = ErrMissingDependency(<<input[j].name, Missing>>)
        /\ runner.res = junit[j].res
        /\ JobStatus(j) = "Failed"
        /\ \E t \in TasksOf(j) :
              /\ input[j].tasks[t].depends = <<>>
              /\ TaskStatus(j, t) = "Pending"

(***************************************************************************)
(* C8: when a step of a task exits with a non-zero code, Job::run of the   *)
(* task's job returns TaskFailed carrying that task, and Runner::run       *)
(* returns JobFailed carrying that job.                                    *)
(***************************************************************************)
C8_FailuresAreWrapped ==
    \A j \in Jobs : \A t \in TasksOf(j) :
        ( /\ tunit[j][t].pc = "done"
          /\ tunit[j][t].res = ErrExit
          /\ junit[j].pc = "done"
          /\ t \notin Range(junit[j].running) )
        => /\ junit[j].res = [kind |-> "TaskFailed", ref |-> <<input[j].tasks[t].name>>]
           /\ (runner.pc = "done" /\ j \notin Range(runner.running)) =>
                 runner.res = [kind |-> "JobFailed", ref |-> <<input[j].name>>]

(***************************************************************************)
(* C9: a node that depends, directly or not, on a node whose run() has     *)
(* returned an error is never launched and stays Pending in the tracker;   *)
(* and once a scheduler has returned an error, every node still in its     *)
(* pending list has not been launched and stays Pending.                   *)
(***************************************************************************)
JobFailed(j) == junit[j].pc = "done" /\ IsErr(junit[j].res)
TaskFailed(j, t) == tunit[j][t].pc = "done" /\ IsErr(tunit[j][t].res)

C9_NothingRunsAfterAFailure ==
    /\ \A j \in Jobs :
          (\E k \in DependsOn(input, j) : JobFailed(k)) => JobUntouched(j)
    /\ IsErr(runner.res) =>
          \A j \in Range(runner.pending) : JobUntouched(j)
    /\ \A j \in Jobs :
          /\ \A t \in TasksOf(j) :
                (\E k \in DependsOn(input[j].tasks, t) : TaskFailed(j, k)) =>
                    /\ ~ TaskLaunched(j, t)
                    /\ TaskStatus(j, t) = "Pending"
          /\ IsErr(junit[j].res) =>
                \A t \in Range(junit[j].pending) :
                    /\ ~ TaskLaunched(j, t)
                    /\ TaskStatus(j, t) = "Pending"

\* Task t of a job depends on a task whose step exited with a non-zero code;
\* Job::run and Runner::run have returned, t is still Pending, and so is a
\* job that depends on t's job.
C9_Witness ==
    \E j \in Jobs : \E t, k \in TasksOf(j) :
        /\ k \in DependsOn(input[j].tasks, t)
        /\ tunit[j][k].res = ErrExit
        /\ IsErr(junit[j].res)
        /\ IsErr(runner.res)
        /\ t \in Range(junit[j].pending)
        /\ TaskStatus(j, t) = "Pending"
        /\ \E b \in Range(runner.pending) :
              j \in DependsOn(input, b) /\ JobStatus(b) = "Pending"

(***************************************************************************)
(* C10: the steps of a task run one at a time in declared order: a step    *)
(* has left Pending only when the step before it is Finished, and at most  *)
(* one step of a task is Running; when a step fails, Task::run returns     *)
(* that step's error and every later step stays Pending; a task with no    *)
(* step returns Ok.                                                        *)
(***************************************************************************)
C10_StepsInOrder ==
    \A j \in Jobs : Tracked(j) => \A t \in TasksOf(j) :
        /\ \A i \in StepsOf(j, t) :
              (i > 1 /\ StepStatus(j, t, i) # "Pending") => StepStatus(j, t, i - 1) = "Finished"
        /\ Cardinality({i \in StepsOf(j, t) : StepStatus(j, t, i) = "Running"}) <= 1
        /\ \A i \in StepsOf(j, t) :
              StepStatus(j, t, i) = "Failed" =>
                  /\ tunit[j][t].pc \in {"ret", "done"}
                  /\ tunit[j][t].res = StepResult(input[j].tasks[t].steps[i].outcome)
        /\ (tunit[j][t].pc \in {"ret", "done"} /\ IsErr(tunit[j][t].res)) =>
              /\ tunit[j][t].index \in StepsOf(j, t)
              /\ tunit[j][t].res = StepResult(input[j].tasks[t].steps[tunit[j][t].index].outcome)
              /\ \A i \in StepsOf(j, t) :
                    i > tunit[j][t].index => StepStatus(j, t, i) = "Pending"
        /\ (tunit[j][t].pc = "done" /\ StepsOf(j, t) = {}) => tunit[j][t].res = Ok

\* The first step of a task of two steps has failed; Task::run has returned
\* its error and the second step is still Pending.
C10_Witness ==
    \E j \in Jobs : \E t \in TasksOf(j) :
        /\ Len(input[j].tasks[t].steps) >= 2
        /\ tunit[j][t].pc = "done"
        /\ tunit[j][t].res = ErrExit
        /\ StepStatus(j, t, 1) = "Failed"
        /\ \A i \in StepsOf(j, t) : i > 1 => StepStatus(j, t, i) = "Pending"

(***************************************************************************)
(* C11, as claimed: once Runner::run has returned (Ok or an error) no      *)
(* tracker record changes any more.                                        *)
(***************************************************************************)
C11_StableAfterReturn == [][runner.pc = "done" => tracker' = tracker]_vars

\* the tracker without the output lines: the status of every job, task and step
StatusesOf(trk) ==
    [name \in DOMAIN trk |->
        [status |-> trk[name].status,
         tasks |-> [t \in DOMAIN trk[name].tasks |->
                      [status |-> trk[name].tasks[t].status,
                       steps |-> [i \in DOMAIN trk[name].tasks[t].steps |->
                                    trk[name].tasks[t].steps[i].status]]]]]

IsPrefix(s, t) == Len(s) <= Len(t) /\ SubSeq(t, 1, Len(s)) = s

\* every output of trk is a prefix of the same step's output in new
OutputsGrow(trk, new) ==
    \A name \in DOMAIN trk : \A t \in DOMAIN trk[name].tasks :
        \A i \in DOMAIN trk[name].tasks[t].steps :
            IsPrefix(trk[name].tasks[t].steps[i].output,
                     new[name].tasks[t].steps[i].output)

\* the lines the process of step i of task t of job j writes, and the output
\* recorded for the step
Written(j, t, i) == input[j].tasks[t].steps[i].writes
Output(j, t, i) == tracker[input[j].name].tasks[t].steps[i].output

(***************************************************************************)
(* C11, amended: once Runner::run has returned Ok, the status of no job,   *)
(* task or step record changes any more, and the output recorded for a     *)
(* step only grows at its end (the readers of a process may still append   *)
(* lines).  After an error the units the schedulers abandoned keep         *)
(* updating the tracker.                                                   *)
(***************************************************************************)
C11_StatusStableAfterOk ==
    [][runner.res = Ok =>
          /\ DOMAIN tracker' = DOMAIN tracker
          /\ StatusesOf(tracker') = StatusesOf(tracker)
          /\ OutputsGrow(tracker, tracker')]_vars

\* Runner::run has returned Ok and a reader still has a line to log.
C11_Witness ==
    /\ runner.res = Ok
    /\ \E j \in Jobs : \E t \in TasksOf(j) : \E i \in StepsOf(j, t) :
          Len(Output(j, t, i)) < Len(Written(j, t, i))

(***************************************************************************)
(* C12: when a step is marked Finished, the output recorded for it holds   *)
(* every line its process wrote to standard output and standard error.     *)
(***************************************************************************)
C12_OutputCompleteWhenFinished ==
    \A j \in Jobs : Tracked(j) =>
        \A t \in TasksOf(j) : \A i \in StepsOf(j, t) :
            StepStatus(j, t, i) = "Finished" =>
                {Output(j, t, i)[p] : p \in DOMAIN Output(j, t, i)} = DOMAIN Written(j, t, i)

(***************************************************************************)
(* C13: the lines recorded for a step are in the order in which its        *)
(* process wrote them, whatever the interleaving of the two readers of its *)
(* standard output and standard error.                                     *)
(***************************************************************************)
C13_OutputInProcessOrder ==
    \A j \in Jobs : Tracked(j) =>
        \A t \in TasksOf(j) : \A i \in StepsOf(j, t) :
            \A p, q \in DOMAIN Output(j, t, i) :
                p < q => Output(j, t, i)[p] < Output(j, t, i)[q]

(***************************************************************************)
(* C14: a scheduler that sees a failure returns it without waiting for the *)
(* units still in flight and without cancelling them.  Every job that is   *)
(* in flight when Runner::run has returned an error still launches its     *)
(* ready tasks; every unit eventually completes; a job that completes      *)
(* after Runner::run has returned an error, and a task that completes      *)
(* after its Job::run has returned an error, completes with its record     *)
(* Finished or Failed, which the record then keeps.                        *)
(***************************************************************************)
Settled == {"Finished", "Failed"}

\* no spawned unit of a job or of a task is still executing
NoneInFlight ==
    \A j \in Jobs : ~ JobInFlight(j) /\ \A t \in TasksOf(j) : ~ TaskInFlight(j, t)

\* The completions of abandoned units: of a job in flight after Runner::run
\* returned an error, of a task in flight after its Job::run returned an error.
AbandonedJobCompletes(j) ==
    IsErr(runner.res) /\ JobInFlight(j) /\ junit'[j].pc = "done"
AbandonedTaskCompletes(j, t) ==
    IsErr(junit[j].res) /\ TaskInFlight(j, t) /\ tunit'[j][t].pc = "done"

\* Records that were settled after their scheduler returned an error.
AbandonedJobSettled(j) ==
    IsErr(runner.res) /\ junit[j].pc = "done" /\ JobStatus(j) \in Settled
AbandonedTaskSettled(j, t) ==
    IsErr(junit[j].res) /\ tunit[j][t].pc = "done" /\ TaskStatus(j, t) \in Settled

C14_AbandonedUnitsGoOn ==
    /\ [](\A j \in Jobs :
            (IsErr(runner.res) /\ junit[j].pc = "pass" /\ JobReadyTasks(j) # {})
                => ENABLED JobSpawn(j))
    /\ <>[]NoneInFlight
    /\ [][\A j \in Jobs :
            /\ AbandonedJobCompletes(j) => JobStatus(j)' \in Settled
            /\ AbandonedJobSettled(j) => JobStatus(j)' = JobStatus(j)
            /\ \A t \in TasksOf(j) :
                  /\ AbandonedTaskCompletes(j, t) => TaskStatus(j, t)' \in Settled
                  /\ AbandonedTaskSettled(j, t) => TaskStatus(j, t)' = TaskStatus(j, t)]_vars

\* Runner::run has returned the failure of one job while another job is in
\* flight, one task of which has finished and made another ready to launch.
C14_Witness ==
    /\ IsErr(runner.res)
    /\ \E j \in Jobs :
          /\ junit[j].pc = "pass"
          /\ junit[j].finished # <<>>
          /\ JobReadyTasks(j) # {}

(***************************************************************************)
(* C15: modify on the job tracker with an unknown job name, on a task view *)
(* with an unknown task name, on a step view with an index past the last   *)
(* step, leaves the whole tracker unchanged; a modify or a log addressed   *)
(* to an existing job, task or step changes that record only (its status,  *)
(* or its output by one line at the end) and no other job, task or step    *)
(* record; get on an unknown name or index returns nothing.                *)
(***************************************************************************)
\* new is trk but for the job record of name, which is trk's but for its tasks
SameButJob(trk, new, name) ==
    /\ DOMAIN new = DOMAIN trk
    /\ \A n \in DOMAIN trk : n # name => new[n] = trk[n]
    /\ new[name].name = trk[name].name
    /\ new[name].depends = trk[name].depends
    /\ DOMAIN new[name].tasks = DOMAIN trk[name].tasks

\* ... and the job's status and tasks are trk's but for task t, which is trk's
\* but for its steps
SameButTask(trk, new, name, t) ==
    /\ SameButJob(trk, new, name)
    /\ new[name].status = trk[name].status
    /\ \A u \in DOMAIN trk[name].tasks : u # t => new[name].tasks[u] = trk[name].tasks[u]
    /\ new[name].tasks[t].name = trk[name].tasks[t].name
    /\ new[name].tasks[t].depends = trk[name].tasks[t].depends
    /\ DOMAIN new[name].tasks[t].steps = DOMAIN trk[name].tasks[t].steps

\* ... and the task's status and steps are trk's but for step i
SameButStep(trk, new, name, t, i) ==
    /\ SameButTask(trk, new, name, t)
    /\ new[name].tasks[t].status = trk[name].tasks[t].status
    /\ \A k \in DOMAIN trk[name].tasks[t].steps :
          k # i => new[name].tasks[t].steps[k] = trk[name].tasks[t].steps[k]

JobModifyFrame(trk, name, status) ==
    LET new == SetJobStatus(trk, name, status) IN
    IF JobTrackerGet(trk, name) = <<>> THEN new = trk
    ELSE /\ SameButJob(trk, new, name)
         /\ new[name].tasks = trk[name].tasks
         /\ JobTrackerGet(new, name)[1].status = status

TaskModifyFrame(trk, job_name, name, status) ==
    LET new == SetTaskStatus(trk, job_name, name, status) IN
    IF TaskTrackerGet(trk, job_name, name) = <<>> THEN new = trk
    ELSE LET t == FindTask(trk[job_name], name) IN
         /\ SameButTask(trk, new, job_name, t)
         /\ new[job_name].tasks[t].steps = trk[job_name].tasks[t].steps
         /\ TaskTrackerGet(new, job_name, name)[1].status = status

StepModifyFrame(trk, job_name, task_name, index, status) ==
    LET new == SetStepStatus(trk, job_name, task_name, index, status) IN
    IF StepTrackerGet(trk, job_name, task_name, index) = <<>> THEN new = trk
    ELSE LET t == FindTask(trk[job_name], task_name) IN
         /\ SameButStep(trk, new, job_name, t, index)
         /\ new[job_name].tasks[t].steps[index].output =
                trk[job_name].tasks[t].steps[index].output
         /\ StepTrackerGet(new, job_name, task_name, index)[1].status = status

LogFrame(trk, job_name, task_name, index, line) ==
    LET new == LogLine(trk, job_name, task_name, index, line) IN
    IF StepTrackerGet(trk, job_name, task_name, index) = <<>> THEN new = trk
    ELSE LET t == FindTask(trk[job_name], task_name) IN
         /\ SameButStep(trk, new, job_name, t, index)
         /\ new[job_name].tasks[t].steps[index].status =
                trk[job_name].tasks[t].steps[index].status
         /\ StepTrackerGet(new, job_name, task_name, index)[1].output =
                Append(trk[job_name].tasks[t].steps[index].output, line)

\* get finds a record exactly for the name of a job, the name of one of its
\* tasks, the index of one of the task's steps
GetFinds(trk, job_name, task_name, index) ==
    /\ JobTrackerGet(trk, job_name) # <<>> <=> job_name \in DOMAIN trk
    /\ TaskTrackerGet(trk, job_name, task_name) # <<>> <=>
          /\ job_name \in DOMAIN trk
          /\ \E t \in DOMAIN trk[job_name].tasks : trk[job_name].tasks[t].name = task_name
    /\ StepTrackerGet(trk, job_name, task_name, index) # <<>> <=>
          /\ TaskTrackerGet(trk, job_name, task_name) # <<>>
          /\ index \in DOMAIN TaskTrackerGet(trk, job_name, task_name)[1].steps

C15_ModifyFrame ==
    \A job_name \in CallJobNames : \A task_name \in CallTaskNames :
      \A index \in CallIndexes : \A status \in StatusValues :
        /\ JobModifyFrame(tracker, job_name, status)
        /\ TaskModifyFrame(tracker, job_name, task_name, status)
        /\ StepModifyFrame(tracker, job_name, task_name, index, status)
        /\ LogFrame(tracker, job_name, task_name, index, index)
        /\ GetFinds(tracker, job_name, task_name, index)

\* Calls have set the first task of a job Finished and logged a line to its
\* step while the job, the other task and the steps are still Pending, and a
\* modify of an unknown job is possible.
C15_Witness ==
    /\ input = TwoTasks
    /\ tracker["A"].status = "Pending"
    /\ tracker["A"].tasks[1].status = "Finished"
    /\ tracker["A"].tasks[1].steps[1].status = "Pending"
    /\ tracker["A"].tasks[1].steps[1].output = <<1>>
    /\ tracker["A"].tasks[2] = JobStatusOf(input[1]).tasks[2]
    /\ ENABLED (tracker' = SetJobStatus(tracker, Missing, "Running")
                /\ UNCHANGED <<input, runner, junit, tunit>>)

(***************************************************************************)
(* C16: a collection with two jobs of one name, or with a job that has two *)
(* tasks of one name, is rejected with an error before any node is         *)
(* launched: no job of such a collection is ever launched, and Runner::run *)
(* returns an error.                                                       *)
(***************************************************************************)
NameTwice(nodes) ==
    \E a, b \in DOMAIN nodes : a # b /\ nodes[a].name = nodes[b].name

HasDuplicates == NameTwice(input) \/ \E j \in Jobs : NameTwice(input[j].tasks)

C16_DuplicatesRejected ==
    HasDuplicates =>
        /\ \A j \in Jobs : ~ JobLaunched(j)
        /\ runner.pc = "done" => IsErr(runner.res)

(***************************************************************************)
(* C17: whenever a scheduler takes a completion off its running list, no   *)
(* node of its pending list is ready (every name of its depends is the     *)
(* name of a node of the finished list): a launch pass launches every      *)
(* ready node, whatever the number in flight.  A pass launches the ready   *)
(* nodes in declaration order, and a launch is possible whenever the       *)
(* scheduler is between launches and waits with a ready node pending, so   *)
(* also after each successful completion.                                  *)
(***************************************************************************)
\* the ready nodes among `pending`, positions in `nodes`, given `finished`
ReadyAmong(nodes, pending, finished) ==
    {n \in Range(pending) :
        \A name \in Range(nodes[n].depends) : \E k \in Range(finished) : nodes[k].name = name}

RunnerReadyPending == ReadyAmong(input, runner.pending, runner.finished)
JobReadyPending(j) == ReadyAmong(input[j].tasks, junit[j].pending, junit[j].finished)

\* a launch pass of a scheduler launches node n: n is the first ready node
LaunchInOrder(ready, running, new) ==
    Len(new) > Len(running) =>
        /\ new[Len(new)] \in ready
        /\ \A n \in ready : new[Len(new)] <= n

C17_EveryReadyNodeLaunched ==
    /\ [][ /\ Len(runner.running') < Len(runner.running) => RunnerReadyPending = {}
           /\ LaunchInOrder(RunnerReadyPending, runner.running, runner.running')
           /\ \A j \in Jobs :
                /\ Len(junit'[j].running) < Len(junit[j].running) => JobReadyPending(j) = {}
                /\ LaunchInOrder(JobReadyPending(j), junit[j].running, junit'[j].running)
         ]_vars
    /\ []( /\ (runner.pc = "pass" /\ RunnerReadyPending # {}) => ENABLED RunnerSpawn
           /\ \A j \in Jobs :
                (junit[j].pc = "pass" /\ JobReadyPending(j) # {}) => ENABLED JobSpawn(j) )

\* Runner::run waits with two jobs in flight, none of them complete yet, and
\* a job pending that is not ready.
C17_Witness ==
    /\ runner.pc = "pass"
    /\ Len(runner.running) = 2
    /\ \A k \in DOMAIN runner.running : JobInFlight(runner.running[k])
    /\ runner.pending # <<>>
    /\ RunnerReadyPending = {}

(***************************************************************************)
(* C18: each scheduler checks every depends list of its collection before  *)
(* it launches anything.  When a task of a job depends on a name that is   *)
(* no task of the job, Job::run launches no task and marks none Running,   *)
(* ready or not, and what it returns is                                    *)
(* MissingDependency("<job name>/<dependency name>"); when a job depends   *)
(* on a name that is no job, Runner::run launches no job, never enters its *)
(* loop, and what it returns is MissingDependency(<dependency name>).      *)
(***************************************************************************)
\* the names of the depends lists of `nodes` that no node of `nodes` has
UnknownNames(nodes) ==
    {name \in UNION {Range(nodes[n].depends) : n \in DOMAIN nodes} :
        \A n \in DOMAIN nodes : nodes[n].name # name}

C18_ValidationBeforeLaunch ==
    /\ UnknownNames(input) # {} =>
          /\ runner.pc \in {"validate", "done"}
          /\ \A j \in Jobs : ~ JobLaunched(j)
          /\ runner.pc = "done" =>
                \E name \in UnknownNames(input) : runner.res = ErrMissingDependency(<<name>>)
    /\ \A j \in Jobs : UnknownNames(input[j].tasks) # {} =>
          /\ junit[j].pc \in {"idle", "start", "done"}
          /\ \A t \in TasksOf(j) : ~ TaskLaunched(j, t)
          /\ Tracked(j) => \A t \in TasksOf(j) : TaskStatus(j, t) = "Pending"
          /\ junit[j].pc = "done" =>
                \E name \in UnknownNames(input[j].tasks) :
                    junit[j].res = ErrMissingDependency(<<input[j].name, name>>)

\* Job::run has returned MissingDependency("A/X") for a job A that has a task
\* with no depends at all, which was never launched.
C18_Witness ==
    \E j \in Jobs :
        /\ UnknownNames(input[j].tasks) # {}
        /\ junit[j].pc = "done"
        /\ junit[j].res = ErrMissingDependency(<<input[j].name, Missing>>)
        /\ \E t \in TasksOf(j) :
              /\ input[j].tasks[t].depends = <<>>
              /\ ~ TaskLaunched(j, t)

(***************************************************************************)
(* C19: each modify of the tracker is atomic, so no update is lost when    *)
(* units update different tasks and steps of one job record concurrently:  *)
(* at every moment each record shows exactly the modify calls completed on *)
(* it.  A step's status is the last one its Step::run has written, its     *)
(* output holds exactly the lines its two readers have logged, each        *)
(* stream's in order; the status of a task (of a job) is Pending before    *)
(* any write, else the scheduler's Running or the closure's final status,  *)
(* whichever call was completed last.                                      *)
(***************************************************************************)
\* the statuses a record may show, given whether the scheduler has marked
\* the unit Running and what the unit's closure has written (res once done)
ShownStatuses(launched, marked, done, res) ==
    IF ~ launched THEN {"Pending"}
    ELSE IF ~ marked THEN (IF done THEN {ClosureStatus(res)} ELSE {"Pending"})
    ELSE IF done THEN {"Running", ClosureStatus(res)} ELSE {"Running"}

\* the status Step::run of step i of task t has written last
ShownStepStatus(j, t, i) ==
    LET u == tunit[j][t] IN
    IF i \notin DOMAIN u.read THEN "Pending"
    ELSE IF i < u.index THEN "Finished"
    ELSE IF u.pc = "step" THEN "Running"
    ELSE StepEndStatus(input[j].tasks[t].steps[i].outcome)

\* the lines of output that came from one stream
FromStream(j, t, i, stream) ==
    SelectSeq(Output(j, t, i), LAMBDA k : Written(j, t, i)[k] = stream)

\* the lines the readers of step i have logged, per stream
LoggedBy(j, t, i, stream) ==
    IF i \in DOMAIN tunit[j][t].read
    THEN SubSeq(LinesOf(Written(j, t, i), stream), 1, tunit[j][t].read[i][stream])
    ELSE <<>>

C19_NoUpdateLost ==
    \A j \in Jobs : Tracked(j) =>
        /\ JobStatus(j) \in ShownStatuses(JobLaunched(j), runner.cur # j,
                                          junit[j].pc = "done", junit[j].res)
        /\ \A t \in TasksOf(j) :
              /\ TaskStatus(j, t) \in ShownStatuses(TaskLaunched(j, t), junit[j].cur # t,
                                                    tunit[j][t].pc = "done", tunit[j][t].res)
              /\ \A i \in StepsOf(j, t) :
                    /\ StepStatus(j, t, i) = ShownStepStatus(j, t, i)
                    /\ \A stream \in Streams :
                          FromStream(j, t, i, stream) = LoggedBy(j, t, i, stream)

\* Two tasks of one job are in flight; the readers of a step of each have
\* logged a line while the other task's records were being updated.
C19_Witness ==
    \E j \in Jobs : \E t, u \in TasksOf(j) :
        /\ t # u
        /\ Tracked(j)
        /\ 1 \in StepsOf(j, t) /\ 1 \in StepsOf(j, u)
        /\ Output(j, t, 1) # <<>> /\ Output(j, u, 1) # <<>>
        /\ StepStatus(j, t, 1) = "Finished"
        /\ StepStatus(j, u, 1) = "Running"

(***************************************************************************)
(* C20: whenever Step::run has returned an error (the process exited with  *)
(* a non-zero code, could not be started or could not be awaited) the      *)
(* step's record is Failed; so no step of a task that is recorded Failed   *)
(* is left Running.                                                        *)
(***************************************************************************)
C20_FailedStepIsFailed ==
    \A j \in Jobs : \A t \in TasksOf(j) :
        /\ (tunit[j][t].pc \in {"ret", "done"} /\ IsErr(tunit[j][t].res)) =>
              StepStatus(j, t, tunit[j][t].index) = "Failed"
        /\ (Tracked(j) /\ TaskStatus(j, t) = "Failed") =>
              \A i \in StepsOf(j, t) : StepStatus(j, t, i) # "Running"

(***************************************************************************)
(* C21: within one scheduler invocation over nodes of unique names every   *)
(* node is launched at most once: at every point of the loop the pending   *)
(* set, the in-flight set and the finished list are pairwise disjoint and  *)
(* hold no node twice, and together with the node whose failure ended the  *)
(* scheduler they are exactly the nodes of the original collection.        *)
(* The node retain's closure has spawned and is about to drop (cur) counts *)
(* as in flight, not as pending.                                           *)
(***************************************************************************)
\* The lists of one scheduler: disjoint, without repeats, and covering
\* `nodes` up to the set `failed`.
Partition(pending, running, finished, nodes, failed) ==
    /\ NoRepeat(pending) /\ NoRepeat(running) /\ NoRepeat(finished)
    /\ Range(pending) \cap Range(running) = {}
    /\ Range(pending) \cap Range(finished) = {}
    /\ Range(running) \cap Range(finished) = {}
    /\ failed \cap (Range(pending) \cup Range(running) \cup Range(finished)) = {}
    /\ Range(pending) \cup Range(running) \cup Range(finished) \cup failed = nodes

\* `pending` without the node the closure is about to drop.
StillPending(sched) ==
    SelectSeq(sched.pending, LAMBDA n : n # sched.cur)

\* Runner::run is in its loop or has left it (the depends of every job exist).
RunnerInLoop == runner.pc # "validate" /\ FirstBadJob(input) = 0

\* Job::run of job j is in its loop or has left it.
JobInLoop(j) ==
    junit[j].pc \in {"pass", "mark", "done"} /\ FirstBadTask(input[j].tasks) = 0

\* The jobs whose failure ended Runner::run: the job that is in none of the
\* lists, has failed, and whose error the run returned.
RunnerFailedNodes ==
    IF runner.pc = "done" /\ IsErr(runner.res)
    THEN {j \in Jobs : JobFailed(j) /\ junit[j].res = runner.res
                       /\ j \notin Range(runner.pending)
                       /\ j \notin Range(runner.running)
                       /\ j \notin Range(runner.finished)}
    ELSE {}

\* The tasks whose failure ended Job::run of job j.
JobFailedNodes(j) ==
    IF junit[j].pc = "done" /\ IsErr(junit[j].res)
    THEN {t \in TasksOf(j) : TaskFailed(j, t) /\ tunit[j][t].res = junit[j].res
                             /\ t \notin Range(junit[j].pending)
                             /\ t \notin Range(junit[j].running)
                             /\ t \notin Range(junit[j].finished)}
    ELSE {}

C21_ListsPartitionNodes ==
    /\ RunnerInLoop =>
          /\ Partition(StillPending(runner), runner.running, runner.finished,
                       Jobs, RunnerFailedNodes)
          /\ Cardinality(RunnerFailedNodes) <= 1
    /\ \A j \in Jobs :
          JobInLoop(j) =>
              /\ Partition(StillPending(junit[j]), junit[j].running,
                           junit[j].finished, TasksOf(j), JobFailedNodes(j))
              /\ Cardinality(JobFailedNodes(j)) <= 1

\* A launch puts into `running` a node whose unit had not been launched.
C21_LaunchedAtMostOnce ==
    [][/\ \A j \in Jobs :
            (j \in Range(runner'.running) /\ j \notin Range(runner.running)) =>
                ~JobLaunched(j)
       /\ \A j \in Jobs : \A t \in TasksOf(j) :
            (/\ junit[j].pc # "idle"
             /\ t \in Range(junit'[j].running)
             /\ t \notin Range(junit[j].running)) =>
                ~TaskLaunched(j, t)]_vars

\* C21: at every point the lists of each scheduler partition its nodes (with
\* the node whose failure ended it), and no node is launched a second time.
C21_LaunchedOncePartitioned ==
    []C21_ListsPartitionNodes /\ C21_LaunchedAtMostOnce

\* Runner::run holds a pending job, a job in flight and a finished job at
\* once, none of them being dropped from pending at this point.
C21_Witness ==
    /\ RunnerInLoop
    /\ runner.pc = "pass"
    /\ runner.pending # <<>> /\ runner.running # <<>> /\ runner.finished # <<>>
    /\ \E j \in Range(runner.running) : JobInLoop(j) /\ junit[j].finished # <<>>

====
